---- MODULE Spec2Model ----
(***************************************************************************)
(* MobileViT weight conversion: the layer builders of                      *)
(* mobilevit/models/conv_block.py and the transplant of convert.py main(). *)
(*                                                                         *)
(* Two specifications share the variables:                                 *)
(*   SpecBuild  a process calling conv_block / inverted_residual_block     *)
(*              freely, and then building the same model once more;        *)
(*   Spec       one run of convert.py: parse_args, main().                 *)
(***************************************************************************)
EXTENDS Integers, Sequences, FiniteSets, TLC

VARIABLES
    uid,        \* backend.get_uid("conv_block") counter of the process
    layers,     \* layer registry of the model under construction, in order
    x,          \* the symbolic tensor the next builder call receives
    calls,      \* builder calls made for the current model
    builds,     \* models finished earlier in this process: calls and names
    last,       \* the last builder call: arguments, emitted ops, result
    input_layer,\* keras.Input of the model under construction
    pc,         \* position of convert.py
    args,       \* parse_args() result
    store,      \* source parameter store (the PyTorch model's tensors)
    pt_loaded,  \* the PyTorch model has been instantiated
    pos,        \* index of the next correspondence entry
    applied,    \* indices of the entries whose assign() went through
    err         \* the exception that ended the run

vars == <<uid, layers, x, calls, builds, last, input_layer, pc, args, store, pt_loaded,
          pos, applied, err>>

build_vars == <<uid, layers, x, calls, builds, last, input_layer>>
main_vars == <<pc, args, store, pt_loaded, pos, applied, err>>

(***************************************************************************)
(* Bounds of the builder specification.                                    *)
(***************************************************************************)
MaxCalls == 2
MaxCh == 2
MaxSide == 4

Channels == 1..MaxCh
Strides == {1, 2}
\* expanded_channels is the input width times the expansion ratio of a family
ExpansionRatios == {2, 4}

(***************************************************************************)
(* Tensors.  A parameter tensor is its shape, the tensor it was read from  *)
(* and the order in which that tensor's axes appear in it.                 *)
(***************************************************************************)
Ident(n) == [i \in 1..n |-> i]

Tensor(shape, src) == [shape |-> shape, src |-> src, axes |-> Ident(Len(shape))]

\* (mutant) transpose() without its axes: the axes are reversed
transpose_reversed(t, perm) ==
    LET n == Len(t.shape)
    IN  [shape |-> [i \in 1..n |-> t.shape[n + 1 - i]],
         src   |-> t.src,
         axes  |-> [i \in 1..n |-> t.axes[n + 1 - i]]]

\* numpy.ndarray.transpose(*perm), perm zero-based: axis i of the result is
\* axis perm[i] of the operand.
transpose(t, perm) ==
    [shape |-> [i \in 1..Len(perm) |-> t.shape[perm[i] + 1]],
     src   |-> t.src,
     axes  |-> [i \in 1..Len(perm) |-> t.axes[perm[i] + 1]]]

\* numpy raises ValueError("axes don't match array") otherwise.
transpose_ok(t, perm) == Len(t.shape) = Len(perm)

KernelPerm == <<2, 3, 1, 0>>

\* A parameter slot of a layer: declared shape, current value, number of
\* assign() calls it has received.
Slot(shape) == [shape |-> shape, val |-> Tensor(shape, "initializer"), writes |-> 0]

(***************************************************************************)
(* Keras layers as the builders create them.                               *)
(***************************************************************************)
CeilDiv(a, b) == (a + b - 1) \div b

\* Output length of a convolution along one spatial axis.
conv_output_length(n, k, padding, s) ==
    IF padding = "same" THEN CeilDiv(n, s) ELSE CeilDiv(n - k + 1, s)

\* imagenet_utils.correct_pad(inputs, kernel_size): ((top, bottom), (left, right))
correct_pad(t, k) ==
    LET adjust(n) == 1 - (n % 2)
        correct == k \div 2
    IN  <<<<correct - adjust(t.shape[1]), correct>>,
          <<correct - adjust(t.shape[2]), correct>>>>

KTensor(shape, from) == [shape |-> shape, from |-> from]

Conv2D(filters, kernel_size, strides, padding, groups, use_bias, activation, name, origin, inp) ==
    LET cin == inp.shape[3]
        kshape == <<kernel_size[1], kernel_size[2], cin \div groups, filters>>
    IN  [layer |->
            [name |-> name, kind |-> "Conv2D", origin |-> origin,
             attrs |-> [filters |-> filters, kernel_size |-> kernel_size,
                        strides |-> strides, padding |-> padding,
                        groups |-> groups, use_bias |-> use_bias,
                        activation |-> activation],
             inbound |-> <<inp.from>>,
             slots |-> IF use_bias
                         THEN [kernel |-> Slot(kshape), bias |-> Slot(<<filters>>)]
                         ELSE [kernel |-> Slot(kshape)]],
         out |-> KTensor(<<conv_output_length(inp.shape[1], kernel_size[1], padding, strides),
                           conv_output_length(inp.shape[2], kernel_size[2], padding, strides),
                           filters>>, name)]

BatchNormalization(name, origin, inp) ==
    [layer |->
        [name |-> name, kind |-> "BatchNormalization", origin |-> origin,
         attrs |-> [axis |-> 3],
         inbound |-> <<inp.from>>,
         slots |-> [gamma |-> Slot(<<inp.shape[3]>>), beta |-> Slot(<<inp.shape[3]>>)]],
     out |-> KTensor(inp.shape, name)]

ZeroPadding2D(padding, name, origin, inp) ==
    [layer |->
        [name |-> name, kind |-> "ZeroPadding2D", origin |-> origin,
         attrs |-> [padding |-> padding],
         inbound |-> <<inp.from>>,
         slots |-> <<>>],
     out |-> KTensor(<<inp.shape[1] + padding[1][1] + padding[1][2],
                       inp.shape[2] + padding[2][1] + padding[2][2],
                       inp.shape[3]>>, name)]

Add(name, origin, a, b) ==
    [layer |->
        [name |-> name, kind |-> "Add", origin |-> origin,
         attrs |-> [n |-> 2],
         inbound |-> <<a.from, b.from>>,
         slots |-> <<>>],
     out |-> KTensor(a.shape, name)]

\* tf.nn.swish applied to a tensor: an op of the graph that is no named layer
\* of the builders.
swish(inp) ==
    [layer |->
        [name |-> "", kind |-> "swish", origin |-> "tf.nn",
         attrs |-> [n |-> 1],
         inbound |-> <<inp.from>>,
         slots |-> <<>>],
     out |-> KTensor(inp.shape, "swish(" \o inp.from \o ")")]

(***************************************************************************)
(* conv_block.py                                                           *)
(***************************************************************************)
\* backend.get_uid(prefix): the process-wide counter, incremented and returned.
get_uid(u) == u + 1

\* str() of a uid
str(n) == ToString(n)

\* An optional name argument: <<>> is None, <<s>> is the string s.
None == <<>>

\* conv_block(input_layer, num_filters, kernel_size, strides, name), run with
\* the uid counter at u.
conv_block(inp, num_filters, kernel_size, strides, name, u) ==
    LET u2 == IF name = None THEN get_uid(u) ELSE u
        nm == IF name = None THEN str(u2) ELSE name[1]
        conv_1 == Conv2D(num_filters, kernel_size, strides, "same", 1, TRUE,
                         "swish", nm \o "conv_1", "conv_block", inp)
    IN  [ops |-> <<conv_1.layer>>, out |-> conv_1.out, uid |-> u2]

\* (mutant) the residual test without its stride conjunct
has_residual_any_stride(inp, output_channels, strides) ==
    inp.shape[3] = output_channels

\* The test of line 106 that decides the residual connection.
has_residual(inp, output_channels, strides) ==
    inp.shape[3] = output_channels /\ strides = 1

\* (mutant) the zero padding emitted whatever the stride
pad_always(strides) == TRUE

\* The test of line 76 that decides the explicit zero padding.
pad_needed(strides) == strides = 2

\* (mutant) the depthwise convolution unpadded whatever the stride
conv_2_padding_valid(strides) == "valid"

\* The padding argument of conv_2, line 85.
conv_2_padding(strides) == IF strides = 1 THEN "same" ELSE "valid"

\* inverted_residual_block(input_layer, expanded_channels, output_channels,
\* strides, name)
inverted_residual_block(inp, expanded_channels, output_channels, strides, name) ==
    LET o == "inverted_residual_block"
        conv_1 == Conv2D(expanded_channels, <<1, 1>>, 1, "same", 1, FALSE, "",
                         name \o "conv_1", o, inp)
        bn_1 == BatchNormalization(name \o "bn_1", o, conv_1.out)
        act_1 == swish(bn_1.out)
        pad_1 == ZeroPadding2D(correct_pad(act_1.out, 3), name \o "pad_1", o, act_1.out)
        padded == IF pad_needed(strides) THEN <<pad_1.layer>> ELSE <<>>
        in_2 == IF pad_needed(strides) THEN pad_1.out ELSE act_1.out
        conv_2 == Conv2D(expanded_channels, <<3, 3>>, strides,
                         conv_2_padding(strides),
                         expanded_channels, FALSE, "", name \o "conv_2", o, in_2)
        bn_2 == BatchNormalization(name \o "bn_2", o, conv_2.out)
        act_2 == swish(bn_2.out)
        conv_3 == Conv2D(output_channels, <<1, 1>>, 1, "same", 1, FALSE, "",
                         name \o "conv_3", o, act_2.out)
        bn_3 == BatchNormalization(name \o "bn_3", o, conv_3.out)
        add == Add(name \o "add", o, bn_3.out, inp)
        body == <<conv_1.layer, bn_1.layer, act_1.layer>> \o padded
                \o <<conv_2.layer, bn_2.layer, act_2.layer, conv_3.layer, bn_3.layer>>
    IN  IF has_residual(inp, output_channels, strides)
          THEN [ops |-> Append(body, add.layer), out |-> add.out]
          ELSE [ops |-> body, out |-> bn_3.out]

\* The ops of a call that are layers of the model (swish is a bare tensor op).
Registered(ops) == SelectSeq(ops, LAMBDA l : l.kind # "swish")

Names(ls) == {ls[i].name : i \in 1..Len(ls)}

(***************************************************************************)
(* SpecBuild: builder calls in one process.                                *)
(***************************************************************************)
ImageChannels == 3
ImageResolution == 256

ConvBlockNames == {None, <<"stem_block_">>}
BlockNames == {"", "inverted_residual_block_1_"}

NoCall == [fn |-> "none"]

\* A caller that names a block gives it a name no earlier call of the build
\* was given; only the default may repeat.
FreshName(fn, name, default) ==
    name = default
    \/ \A i \in 1..Len(calls) : calls[i].fn = fn => calls[i].name # name

\* While a model is rebuilt the calls of the first build are repeated.
Replays(c) ==
    IF builds = <<>>
      THEN TRUE
      ELSE IF Len(calls) < Len(builds[1].calls)
             THEN builds[1].calls[Len(calls) + 1] = c
             ELSE FALSE

CallConvBlock ==
    /\ pc = "idle"
    /\ Len(calls) < MaxCalls
    /\ \E name \in ConvBlockNames, num_filters \in Channels :
         LET c == [fn |-> "conv_block", name |-> name, num_filters |-> num_filters]
             r == conv_block(x, num_filters, <<3, 3>>, 2, name, uid)
         IN  /\ Replays(c)
             /\ FreshName("conv_block", name, None)
             /\ uid' = r.uid
             /\ layers' = layers \o Registered(r.ops)
             /\ x' = r.out
             /\ calls' = Append(calls, c)
             /\ last' = [fn |-> "conv_block", input |-> x, ops |-> r.ops, out |-> r.out]
    /\ UNCHANGED <<builds, input_layer, main_vars>>

CallInvertedResidualBlock ==
    /\ pc = "idle"
    /\ Len(calls) < MaxCalls
    /\ \E name \in BlockNames, output_channels \in Channels, strides \in Strides,
          expanded_channels \in {x.shape[3] * ratio : ratio \in ExpansionRatios} :
         LET c == [fn |-> "inverted_residual_block", name |-> name,
                   expanded_channels |-> expanded_channels,
                   output_channels |-> output_channels, strides |-> strides]
             r == inverted_residual_block(x, expanded_channels, output_channels,
                                          strides, name)
         IN  /\ Replays(c)
             /\ FreshName("inverted_residual_block", name, "")
             /\ layers' = layers \o Registered(r.ops)
             /\ x' = r.out
             /\ calls' = Append(calls, c)
             /\ last' = [fn |-> "inverted_residual_block", input |-> x,
                         expanded_channels |-> expanded_channels,
                         output_channels |-> output_channels,
                         strides |-> strides, name |-> name,
                         ops |-> r.ops, out |-> r.out]
    /\ UNCHANGED <<uid, builds, input_layer, main_vars>>

\* The same process builds the same model once more: a new registry and a new
\* input; the uid counter of the process is not reset.
Rebuild ==
    /\ pc = "idle"
    /\ builds = <<>>
    /\ calls # <<>>
    /\ builds' = <<[calls |-> calls, names |-> Names(layers)]>>
    /\ layers' = <<>>
    /\ calls' = <<>>
    /\ x' = input_layer
    /\ last' = NoCall
    /\ UNCHANGED <<uid, input_layer, main_vars>>

\* keras.Input(shape=(resolution, resolution, channels))
Input(resolution, channels) == KTensor(<<resolution, resolution, channels>>, "input")

NoErr == [type |-> "", why |-> "", arg |-> "", at |-> 0]
NoArgs == [dataset |-> "", model_name |-> "", image_resolution |-> 0]

InitBuild ==
    /\ uid = 0
    /\ layers = <<>>
    /\ input_layer = Input(ImageResolution, ImageChannels)
    /\ x = input_layer
    /\ calls = <<>>
    /\ builds = <<>>
    /\ last = NoCall
    /\ pc = "idle"
    /\ args = NoArgs
    /\ store = <<>>
    /\ pt_loaded = FALSE
    /\ pos = 0
    /\ applied = {}
    /\ err = NoErr

NextBuild ==
    \/ CallConvBlock
    \/ CallInvertedResidualBlock
    \/ Rebuild

SpecBuild == InitBuild /\ [][NextBuild]_vars

(***************************************************************************)
(* SpecShape: inverted_residual_block applied to feature maps of small     *)
(* heights and widths, odd and even, the two different from one another.   *)
(***************************************************************************)
InputSizes == {<<h, MaxSide + 1 - h>> : h \in 1..MaxSide}

InitShape ==
    /\ uid = 0
    /\ layers = <<>>
    /\ input_layer \in {KTensor(<<hw[1], hw[2], ImageChannels>>, "input") : hw \in InputSizes}
    /\ x = input_layer
    /\ calls = <<>>
    /\ builds = <<>>
    /\ last = NoCall
    /\ pc = "idle"
    /\ args = NoArgs
    /\ store = <<>>
    /\ pt_loaded = FALSE
    /\ pos = 0
    /\ applied = {}
    /\ err = NoErr

NextShape == CallInvertedResidualBlock

SpecShape == InitShape /\ [][NextShape]_vars

(***************************************************************************)
(* convert.py                                                              *)
(***************************************************************************)
DATASET_TO_CLASSES == [d \in {"imagenet-1k"} |-> 1000]

\* argparse choices of --dataset and --model-name, default of --image-resolution
DatasetChoices == {"imagenet-1k", "imagenet-21k"}
ModelChoices == {"mobilevit_xxs", "mobilevit_xs", "mobilevit_s"}

\* Channel widths of a model family: the stem, the four stages that follow,
\* the transformer width of the first MobileViT block, the expansion ratio.
Config(model_name) ==
    CASE model_name = "mobilevit_xxs" ->
           [stem |-> 16, c |-> <<16, 24, 48, 64>>, hidden |-> 64, ratio |-> 2]
      [] model_name = "mobilevit_xs" ->
           [stem |-> 16, c |-> <<32, 48, 64, 80>>, hidden |-> 96, ratio |-> 4]
      [] model_name = "mobilevit_s" ->
           [stem |-> 16, c |-> <<32, 64, 96, 128>>, hidden |-> 144, ratio |-> 4]

(***************************************************************************)
(* The source parameter store: the PyTorch model's state, in registration  *)
(* order.  param is TRUE for parameters and FALSE for buffers.             *)
(***************************************************************************)
\* One tensor of the state: attr of the part (convolution or normalization) of
\* the conv layer unit; block and stage say where the unit sits when it is a
\* stage of an inverted residual block.
Stored(unit, part, attr, shape, param) ==
    [path |-> unit \o "." \o part \o "." \o attr,
     unit |-> unit, part |-> part, attr |-> attr, block |-> "", stage |-> "",
     tensor |-> Tensor(shape, unit \o "." \o part \o "." \o attr), param |-> param]

ConvLayerPT(prefix, out_c, in_c, k, groups, norm) ==
    <<Stored(prefix, "convolution", "weight", <<out_c, in_c \div groups, k, k>>, TRUE)>>
    \o (IF norm
          THEN <<Stored(prefix, "normalization", "weight", <<out_c>>, TRUE),
                 Stored(prefix, "normalization", "bias", <<out_c>>, TRUE),
                 Stored(prefix, "normalization", "running_mean", <<out_c>>, FALSE),
                 Stored(prefix, "normalization", "running_var", <<out_c>>, FALSE)>>
          ELSE <<>>)

StagePT(block, stage, out_c, in_c, k, groups) ==
    LET s == ConvLayerPT(block \o "." \o stage, out_c, in_c, k, groups, TRUE)
    IN  [i \in 1..Len(s) |-> [s[i] EXCEPT !.block = block, !.stage = stage]]

InvertedResidualPT(prefix, in_c, out_c, ratio) ==
    StagePT(prefix, "expand_1x1", in_c * ratio, in_c, 1, 1)
    \o StagePT(prefix, "conv_3x3", in_c * ratio, in_c * ratio, 3, in_c * ratio)
    \o StagePT(prefix, "reduce_1x1", out_c, in_c * ratio, 1, 1)

get_mobilevit_pt(model_name) ==
    LET cfg == Config(model_name)
        c == cfg.c
        r == cfg.ratio
        enc == "mobilevit.encoder.layer."
    IN  ConvLayerPT("mobilevit.conv_stem", cfg.stem, 3, 3, 1, TRUE)
        \o InvertedResidualPT(enc \o "0.layer.0", cfg.stem, c[1], r)
        \o InvertedResidualPT(enc \o "1.layer.0", c[1], c[2], r)
        \o InvertedResidualPT(enc \o "1.layer.1", c[2], c[2], r)
        \o InvertedResidualPT(enc \o "1.layer.2", c[2], c[2], r)
        \o InvertedResidualPT(enc \o "2.downsampling_layer", c[2], c[3], r)
        \o ConvLayerPT(enc \o "2.conv_kxk", c[3], c[3], 3, 1, TRUE)
        \o ConvLayerPT(enc \o "2.conv_1x1", cfg.hidden, c[3], 1, 1, FALSE)
        \o InvertedResidualPT(enc \o "3.downsampling_layer", c[3], c[4], r)

\* list(model.parameters()): the tensors of the parameters, in order
param_list(st) ==
    LET ps == SelectSeq(st, LAMBDA s : s.param)
    IN  [i \in 1..Len(ps) |-> ps[i].tensor]

\* list(model.state_dict().keys())
state_list(st) == [i \in 1..Len(st) |-> st[i].path]

Paths(st) == {st[i].path : i \in 1..Len(st)}

\* model.state_dict()[path], for a path of the store
model_states(st, path) ==
    LET i == CHOOSE j \in 1..Len(st) : st[j].path = path
    IN  st[i].tensor

(***************************************************************************)
(* The target registry.  get_mobilevit_model composes the builders of      *)
(* conv_block.py; the layers it creates itself under the names the         *)
(* transplant looks up are of the kind stem_bn and mvit_bn say, or absent. *)
(***************************************************************************)
OtherKinds == {"BatchNormalization", "Activation", "absent"}

OtherLayer(name, kind, inp) ==
    IF kind = "absent" THEN <<>>
    ELSE IF kind = "BatchNormalization"
      THEN <<BatchNormalization(name, "get_mobilevit_model", inp).layer>>
      ELSE <<[name |-> name, kind |-> kind, origin |-> "get_mobilevit_model",
              attrs |-> [n |-> 1], inbound |-> <<inp.from>>, slots |-> <<>>]>>

BlockName(k) == "inverted_residual_block_" \o str(k) \o "_"

\* One step of a model function on the graph g = [layers, out, uid]: a call of
\* a builder of conv_block.py, or a layer the model function creates itself.
build_step(c, g) ==
    IF c.fn = "conv_block"
      THEN LET r == conv_block(g.out, c.num_filters, c.kernel_size, c.strides, c.name, g.uid)
           IN  [layers |-> g.layers \o Registered(r.ops), out |-> r.out, uid |-> r.uid]
    ELSE IF c.fn = "inverted_residual_block"
      THEN LET r == inverted_residual_block(g.out, c.expanded_channels, c.output_channels,
                                            c.strides, c.name)
           IN  [layers |-> g.layers \o Registered(r.ops), out |-> r.out, uid |-> g.uid]
    ELSE IF c.fn = "layer"
      THEN [layers |-> g.layers \o OtherLayer(c.name, c.kind, g.out),
            out |-> g.out, uid |-> g.uid]
    ELSE \* the rest of a MobileViT block: its output has the block's input width
         [layers |-> g.layers,
          out |-> KTensor(<<g.out.shape[1], g.out.shape[2], c.channels>>, c.name),
          uid |-> g.uid]

RECURSIVE build_steps(_, _)
build_steps(plan, g) ==
    IF plan = <<>> THEN g
    ELSE CHOOSE r \in {build_steps(Tail(plan), g2) : g2 \in {build_step(Head(plan), g)}} : TRUE

CB(num_filters, kernel_size, strides, name) ==
    [fn |-> "conv_block", num_filters |-> num_filters, kernel_size |-> kernel_size,
     strides |-> strides, name |-> name]

IRB(expanded_channels, output_channels, strides, name) ==
    [fn |-> "inverted_residual_block", expanded_channels |-> expanded_channels,
     output_channels |-> output_channels, strides |-> strides, name |-> name]

\* The calls get_mobilevit_model makes for a model family.
ModelPlan(model_name, stem_bn, mvit_bn) ==
    LET cfg == Config(model_name)
        c == cfg.c
        r == cfg.ratio
    IN  <<CB(cfg.stem, <<3, 3>>, 2, <<"stem_block_">>),
          [fn |-> "layer", name |-> "stem_block_bn_1", kind |-> stem_bn],
          IRB(cfg.stem * r, c[1], 1, BlockName(1)),
          IRB(c[1] * r, c[2], 2, BlockName(2)),
          IRB(c[2] * r, c[2], 1, BlockName(3)),
          IRB(c[2] * r, c[2], 1, BlockName(4)),
          IRB(c[2] * r, c[3], 2, BlockName(5)),
          CB(c[3], <<3, 3>>, 1, None),
          [fn |-> "layer", name |-> "batch_normalization", kind |-> mvit_bn],
          CB(cfg.hidden, <<1, 1>>, 1, None),
          [fn |-> "mobilevit_block", name |-> "mobilevit_block_1", channels |-> c[3]],
          IRB(c[3] * r, c[4], 2, BlockName(6))>>

get_mobilevit_model(model_name, image_shape, num_classes, stem_bn, mvit_bn, u) ==
    build_steps(ModelPlan(model_name, stem_bn, mvit_bn),
                [layers |-> <<>>, out |-> KTensor(image_shape, "input"), uid |-> u])

\* Model.get_layer(name): the position of the first layer of that name, 0
\* when there is none (Keras raises ValueError).
get_layer(ls, name) ==
    LET S == {i \in 1..Len(ls) : ls[i].name = name}
    IN  IF S = {} THEN 0 ELSE CHOOSE i \in S : \A j \in S : i <= j

(***************************************************************************)
(* The correspondence table of main(), one entry per assign() in the order *)
(* of the code.  prefetch: the source tensor is read from model_states     *)
(* before the isinstance test, not inside it.                              *)
(***************************************************************************)
ByIndex(layer, slot, expect, index, transform) ==
    [layer |-> layer, slot |-> slot, expect |-> expect, by |-> "index",
     index |-> index, path |-> "", transform |-> transform, prefetch |-> FALSE]

\* (mutant) block 4's lookups copied from block 3 with the index left as it was
ByKey_block_index_copied(layer, slot, expect, path, transform, prefetch) ==
    [layer |-> IF layer = "inverted_residual_block_4_conv_1"
                 THEN "inverted_residual_block_3_conv_1" ELSE layer,
     slot |-> slot, expect |-> expect, by |-> "key",
     index |-> 0, path |-> path, transform |-> transform, prefetch |-> prefetch]

ByKey(layer, slot, expect, path, transform, prefetch) ==
    [layer |-> layer, slot |-> slot, expect |-> expect, by |-> "key",
     index |-> 0, path |-> path, transform |-> transform, prefetch |-> prefetch]

Table ==
    <<
      \* lines 92-98
      ByIndex("stem_block_conv_1", "kernel", "Conv2D", 0, "kernel"),
      \* lines 92-99
      ByIndex("stem_block_conv_1", "bias", "Conv2D", 1, "identity"),
      \* lines 101-108
      ByKey("stem_block_bn_1", "gamma", "BatchNormalization",
            "mobilevit.conv_stem.normalization.weight",
            "identity", FALSE),
      \* lines 101-111
      ByKey("stem_block_bn_1", "beta", "BatchNormalization",
            "mobilevit.conv_stem.normalization.bias",
            "identity", FALSE),
      \* lines 114-124
      ByKey("inverted_residual_block_1_conv_1", "kernel", "Conv2D",
            "mobilevit.encoder.layer.0.layer.0.expand_1x1.convolution.weight",
            "kernel", TRUE),
      \* lines 126-137
      ByKey("inverted_residual_block_1_bn_1", "gamma", "BatchNormalization",
            "mobilevit.encoder.layer.0.layer.0.expand_1x1.normalization.weight",
            "identity", FALSE),
      \* lines 126-144
      ByKey("inverted_residual_block_1_bn_1", "beta", "BatchNormalization",
            "mobilevit.encoder.layer.0.layer.0.expand_1x1.normalization.bias",
            "identity", FALSE),
      \* lines 147-157
      ByKey("inverted_residual_block_1_conv_2", "kernel", "Conv2D",
            "mobilevit.encoder.layer.0.layer.0.conv_3x3.convolution.weight",
            "kernel", TRUE),
      \* lines 159-170
      ByKey("inverted_residual_block_1_bn_2", "gamma", "BatchNormalization",
            "mobilevit.encoder.layer.0.layer.0.conv_3x3.normalization.weight",
            "identity", FALSE),
      \* lines 159-177
      ByKey("inverted_residual_block_1_bn_2", "beta", "BatchNormalization",
            "mobilevit.encoder.layer.0.layer.0.conv_3x3.normalization.bias",
            "identity", FALSE),
      \* lines 180-190
      ByKey("inverted_residual_block_1_conv_3", "kernel", "Conv2D",
            "mobilevit.encoder.layer.0.layer.0.reduce_1x1.convolution.weight",
            "kernel", TRUE),
      \* lines 192-203
      ByKey("inverted_residual_block_1_bn_3", "gamma", "BatchNormalization",
            "mobilevit.encoder.layer.0.layer.0.reduce_1x1.normalization.weight",
            "identity", FALSE),
      \* lines 192-210
      ByKey("inverted_residual_block_1_bn_3", "beta", "BatchNormalization",
            "mobilevit.encoder.layer.0.layer.0.reduce_1x1.normalization.bias",
            "identity", FALSE),
      \* lines 213-223
      ByKey("inverted_residual_block_2_conv_1", "kernel", "Conv2D",
            "mobilevit.encoder.layer.1.layer.0.expand_1x1.convolution.weight",
            "kernel", TRUE),
      \* lines 225-236
      ByKey("inverted_residual_block_2_bn_1", "gamma", "BatchNormalization",
            "mobilevit.encoder.layer.1.layer.0.expand_1x1.normalization.weight",
            "identity", FALSE),
      \* lines 225-243
      ByKey("inverted_residual_block_2_bn_1", "beta", "BatchNormalization",
            "mobilevit.encoder.layer.1.layer.0.expand_1x1.normalization.bias",
            "identity", FALSE),
      \* lines 246-256
      ByKey("inverted_residual_block_2_conv_2", "kernel", "Conv2D",
            "mobilevit.encoder.layer.1.layer.0.conv_3x3.convolution.weight",
            "kernel", TRUE),
      \* lines 258-269
      ByKey("inverted_residual_block_2_bn_2", "gamma", "BatchNormalization",
            "mobilevit.encoder.layer.1.layer.0.conv_3x3.normalization.weight",
            "identity", FALSE),
      \* lines 258-276
      ByKey("inverted_residual_block_2_bn_2", "beta", "BatchNormalization",
            "mobilevit.encoder.layer.1.layer.0.conv_3x3.normalization.bias",
            "identity", FALSE),
      \* lines 279-289
      ByKey("inverted_residual_block_2_conv_3", "kernel", "Conv2D",
            "mobilevit.encoder.layer.1.layer.0.reduce_1x1.convolution.weight",
            "kernel", TRUE),
      \* lines 291-302
      ByKey("inverted_residual_block_2_bn_3", "gamma", "BatchNormalization",
            "mobilevit.encoder.layer.1.layer.0.reduce_1x1.normalization.weight",
            "identity", FALSE),
      \* lines 291-309
      ByKey("inverted_residual_block_2_bn_3", "beta", "BatchNormalization",
            "mobilevit.encoder.layer.1.layer.0.reduce_1x1.normalization.bias",
            "identity", FALSE),
      \* lines 312-322
      ByKey("inverted_residual_block_3_conv_1", "kernel", "Conv2D",
            "mobilevit.encoder.layer.1.layer.1.expand_1x1.convolution.weight",
            "kernel", TRUE),
      \* lines 324-335
      ByKey("inverted_residual_block_3_bn_1", "gamma", "BatchNormalization",
            "mobilevit.encoder.layer.1.layer.1.expand_1x1.normalization.weight",
            "identity", FALSE),
      \* lines 324-342
      ByKey("inverted_residual_block_3_bn_1", "beta", "BatchNormalization",
            "mobilevit.encoder.layer.1.layer.1.expand_1x1.normalization.bias",
            "identity", FALSE),
      \* lines 345-355
      ByKey("inverted_residual_block_3_conv_2", "kernel", "Conv2D",
            "mobilevit.encoder.layer.1.layer.1.conv_3x3.convolution.weight",
            "kernel", TRUE),
      \* lines 357-368
      ByKey("inverted_residual_block_3_bn_2", "gamma", "BatchNormalization",
            "mobilevit.encoder.layer.1.layer.1.conv_3x3.normalization.weight",
            "identity", FALSE),
      \* lines 357-375
      ByKey("inverted_residual_block_3_bn_2", "beta", "BatchNormalization",
            "mobilevit.encoder.layer.1.layer.1.conv_3x3.normalization.bias",
            "identity", FALSE),
      \* lines 378-388
      ByKey("inverted_residual_block_3_conv_3", "kernel", "Conv2D",
            "mobilevit.encoder.layer.1.layer.1.reduce_1x1.convolution.weight",
            "kernel", TRUE),
      \* lines 390-401
      ByKey("inverted_residual_block_3_bn_3", "gamma", "BatchNormalization",
            "mobilevit.encoder.layer.1.layer.1.reduce_1x1.normalization.weight",
            "identity", FALSE),
      \* lines 390-408
      ByKey("inverted_residual_block_3_bn_3", "beta", "BatchNormalization",
            "mobilevit.encoder.layer.1.layer.1.reduce_1x1.normalization.bias",
            "identity", FALSE),
      \* lines 411-421
      ByKey("inverted_residual_block_4_conv_1", "kernel", "Conv2D",
            "mobilevit.encoder.layer.1.layer.2.expand_1x1.convolution.weight",
            "kernel", TRUE),
      \* lines 423-434
      ByKey("inverted_residual_block_4_bn_1", "gamma", "BatchNormalization",
            "mobilevit.encoder.layer.1.layer.2.expand_1x1.normalization.weight",
            "identity", FALSE),
      \* lines 423-441
      ByKey("inverted_residual_block_4_bn_1", "beta", "BatchNormalization",
            "mobilevit.encoder.layer.1.layer.2.expand_1x1.normalization.bias",
            "identity", FALSE),
      \* lines 444-454
      ByKey("inverted_residual_block_4_conv_2", "kernel", "Conv2D",
            "mobilevit.encoder.layer.1.layer.2.conv_3x3.convolution.weight",
            "kernel", TRUE),
      \* lines 456-467
      ByKey("inverted_residual_block_4_bn_2", "gamma", "BatchNormalization",
            "mobilevit.encoder.layer.1.layer.2.conv_3x3.normalization.weight",
            "identity", FALSE),
      \* lines 456-474
      ByKey("inverted_residual_block_4_bn_2", "beta", "BatchNormalization",
            "mobilevit.encoder.layer.1.layer.2.conv_3x3.normalization.bias",
            "identity", FALSE),
      \* lines 477-487
      ByKey("inverted_residual_block_4_conv_3", "kernel", "Conv2D",
            "mobilevit.encoder.layer.1.layer.2.reduce_1x1.convolution.weight",
            "kernel", TRUE),
      \* lines 489-500
      ByKey("inverted_residual_block_4_bn_3", "gamma", "BatchNormalization",
            "mobilevit.encoder.layer.1.layer.2.reduce_1x1.normalization.weight",
            "identity", FALSE),
      \* lines 489-507
      ByKey("inverted_residual_block_4_bn_3", "beta", "BatchNormalization",
            "mobilevit.encoder.layer.1.layer.2.reduce_1x1.normalization.bias",
            "identity", FALSE),
      \* lines 510-520
      ByKey("inverted_residual_block_5_conv_1", "kernel", "Conv2D",
            "mobilevit.encoder.layer.2.downsampling_layer.expand_1x1.convolution.weight",
            "kernel", TRUE),
      \* lines 522-533
      ByKey("inverted_residual_block_5_bn_1", "gamma", "BatchNormalization",
            "mobilevit.encoder.layer.2.downsampling_layer.expand_1x1.normalization.weight",
            "identity", FALSE),
      \* lines 522-540
      ByKey("inverted_residual_block_5_bn_1", "beta", "BatchNormalization",
            "mobilevit.encoder.layer.2.downsampling_layer.expand_1x1.normalization.bias",
            "identity", FALSE),
      \* lines 543-553
      ByKey("inverted_residual_block_5_conv_2", "kernel", "Conv2D",
            "mobilevit.encoder.layer.2.downsampling_layer.conv_3x3.convolution.weight",
            "kernel", TRUE),
      \* lines 555-566
      ByKey("inverted_residual_block_5_bn_2", "gamma", "BatchNormalization",
            "mobilevit.encoder.layer.2.downsampling_layer.conv_3x3.normalization.weight",
            "identity", FALSE),
      \* lines 555-573
      ByKey("inverted_residual_block_5_bn_2", "beta", "BatchNormalization",
            "mobilevit.encoder.layer.2.downsampling_layer.conv_3x3.normalization.bias",
            "identity", FALSE),
      \* lines 576-586
      ByKey("inverted_residual_block_5_conv_3", "kernel", "Conv2D",
            "mobilevit.encoder.layer.2.downsampling_layer.reduce_1x1.convolution.weight",
            "kernel", TRUE),
      \* lines 588-599
      ByKey("inverted_residual_block_5_bn_3", "gamma", "BatchNormalization",
            "mobilevit.encoder.layer.2.downsampling_layer.reduce_1x1.normalization.weight",
            "identity", FALSE),
      \* lines 588-606
      ByKey("inverted_residual_block_5_bn_3", "beta", "BatchNormalization",
            "mobilevit.encoder.layer.2.downsampling_layer.reduce_1x1.normalization.bias",
            "identity", FALSE),
      \* lines 608-616
      ByKey("1conv_1", "kernel", "Conv2D",
            "mobilevit.encoder.layer.2.conv_kxk.convolution.weight",
            "kernel", TRUE),
      \* lines 618-627
      ByKey("batch_normalization", "gamma", "BatchNormalization",
            "mobilevit.encoder.layer.2.conv_kxk.normalization.weight",
            "identity", FALSE),
      \* lines 618-634
      ByKey("batch_normalization", "beta", "BatchNormalization",
            "mobilevit.encoder.layer.2.conv_kxk.normalization.bias",
            "identity", FALSE),
      \* lines 636-644
      ByKey("2conv_1", "kernel", "Conv2D",
            "mobilevit.encoder.layer.2.conv_1x1.convolution.weight",
            "kernel", TRUE),
      \* lines 646-656
      ByKey("inverted_residual_block_6_conv_1", "kernel", "Conv2D",
            "mobilevit.encoder.layer.3.downsampling_layer.expand_1x1.convolution.weight",
            "kernel", TRUE)
    >>

NEntries == Len(Table)

\* (mutant) an assign that takes a value of any shape
shape_unchecked(t, slot) == TRUE

\* Variable.assign(value) accepts a value of the variable's own shape only
\* (tf raises ValueError otherwise).
shape_compatible(t, slot) == t.shape = slot.shape

Raise(type, why, arg, ls, st) ==
    [outcome |-> "raise", type |-> type, why |-> why, arg |-> arg, layers |-> ls,
     store |-> st]

\* (mutant) the source tensor is taken out of the mapping: model_states.pop(path)
fetched_pop(st, e) ==
    IF e.by = "key" THEN SelectSeq(st, LAMBDA s : s.path # e.path) ELSE st

\* The store after entry e has fetched its source: model_states[path] and
\* param_list[index] are subscripts, .numpy() and .transpose() are views that
\* are read, tf.Variable() copies.
fetched(st, e) == st

\* One correspondence entry, as main() executes it on registry ls and store st.
apply_entry(e, ls, st) ==
    LET li == get_layer(ls, e.layer)
        st2 == fetched(st, e)
    IN  IF li = 0
          THEN Raise("ValueError", "get_layer", e.layer, ls, st)
        ELSE IF e.prefetch /\ e.path \notin Paths(st)
          THEN Raise("KeyError", "model_states", e.path, ls, st)
        ELSE IF ls[li].kind # e.expect
          THEN [outcome |-> "skip", type |-> "", why |-> "isinstance", arg |-> e.layer,
                layers |-> ls, store |-> IF e.prefetch THEN st2 ELSE st]
        ELSE IF e.by = "key" /\ e.path \notin Paths(st)
          THEN Raise("KeyError", "model_states", e.path, ls, st)
        ELSE IF e.by = "index" /\ e.index >= Len(param_list(st))
          THEN Raise("IndexError", "param_list", str(e.index), ls, st)
        ELSE
          LET src == IF e.by = "key" THEN model_states(st, e.path)
                     ELSE param_list(st)[e.index + 1]
          IN  IF e.transform = "kernel" /\ ~transpose_ok(src, KernelPerm)
                THEN Raise("ValueError", "transpose", src.src, ls, st2)
              ELSE IF e.slot \notin DOMAIN ls[li].slots
                THEN Raise("AttributeError", "assign", e.layer, ls, st2)
              ELSE
                LET t == IF e.transform = "kernel" THEN transpose(src, KernelPerm) ELSE src
                    slot == ls[li].slots[e.slot]
                IN  IF ~shape_compatible(t, slot)
                      THEN Raise("ValueError", "assign", e.layer, ls, st2)
                      ELSE [outcome |-> "assign", type |-> "", why |-> "", arg |-> e.layer,
                            layers |-> [ls EXCEPT ![li].slots[e.slot] =
                                          [shape |-> slot.shape, val |-> t,
                                           writes |-> slot.writes + 1]],
                            store |-> st2]

(***************************************************************************)
(* Defects of the loaded checkpoint: one tensor missing, or one tensor of  *)
(* half the leading dimension.                                             *)
(***************************************************************************)
Omit(st, path) == SelectSeq(st, LAMBDA s : s.path # path)

Halve(st, path) ==
    [i \in 1..Len(st) |->
        IF st[i].path = path
          THEN [st[i] EXCEPT !.tensor.shape[1] = @ \div 2]
          ELSE st[i]]

\* The paths main() reads: by key, or by position in param_list.
ReferencedPaths(st) ==
    {Table[i].path : i \in {j \in 1..NEntries : Table[j].by = "key"}}
    \cup {param_list(st)[Table[i].index + 1].src :
            i \in {j \in 1..NEntries : Table[j].by = "index"}}

NoTensor == KTensor(<<>>, "")

Init ==
    /\ uid = 0
    /\ layers = <<>>
    /\ input_layer = NoTensor
    /\ x = NoTensor
    /\ calls = <<>>
    /\ builds = <<>>
    /\ last = NoCall
    /\ pc = "parse"
    /\ args = NoArgs
    /\ store = <<>>
    /\ pt_loaded = FALSE
    /\ pos = 0
    /\ applied = {}
    /\ err = NoErr

\* parse_args(): the values argparse lets through
ParseArgs ==
    /\ pc = "parse"
    /\ \E d \in DatasetChoices, m \in ModelChoices :
         args' = [dataset |-> d, model_name |-> m, image_resolution |-> ImageResolution]
    /\ pc' = "load"
    /\ UNCHANGED <<build_vars, store, pt_loaded, pos, applied, err>>

\* main(), lines 74-76: the PyTorch model is instantiated with its weights.
LoadSource ==
    /\ pc = "load"
    /\ LET pristine == get_mobilevit_pt(args.model_name)
       IN  \/ store' = pristine
           \/ \E p \in ReferencedPaths(pristine) : store' = Omit(pristine, p)
           \/ \E p \in ReferencedPaths(pristine) : store' = Halve(pristine, p)
    /\ pt_loaded' = TRUE
    /\ pc' = "build"
    /\ UNCHANGED <<build_vars, args, pos, applied, err>>

\* main(), lines 78-89: the TensorFlow model is instantiated; its arguments
\* are evaluated first, DATASET_TO_CLASSES[args["dataset"]] among them.
BuildTarget ==
    /\ pc = "build"
    /\ IF args.dataset \notin DOMAIN DATASET_TO_CLASSES
         THEN /\ pc' = "error"
              /\ err' = [type |-> "KeyError", why |-> "DATASET_TO_CLASSES",
                         arg |-> args.dataset, at |-> 0]
              /\ UNCHANGED <<build_vars, pos>>
         ELSE \E stem_bn \in OtherKinds, mvit_bn \in OtherKinds :
              \E m \in {get_mobilevit_model(
                             args.model_name,
                             <<args.image_resolution, args.image_resolution, ImageChannels>>,
                             DATASET_TO_CLASSES[args.dataset], stem_bn, mvit_bn, uid)} :
                    /\ layers' = m.layers
                    /\ uid' = m.uid
                    /\ input_layer' = KTensor(<<args.image_resolution, args.image_resolution,
                                                ImageChannels>>, "input")
                    /\ x' = m.out
                    /\ pc' = "transplant"
                    /\ pos' = 1
                    /\ UNCHANGED <<calls, builds, last, err>>
    /\ UNCHANGED <<args, store, pt_loaded, applied>>

\* main(), lines 91-656: the next correspondence entry
ApplyEntry ==
    /\ pc = "transplant"
    /\ pos <= NEntries
    /\ LET r == apply_entry(Table[pos], layers, store)
       IN  /\ layers' = r.layers
           /\ store' = r.store
           /\ IF r.outcome = "raise"
                THEN /\ pc' = "error"
                     /\ err' = [type |-> r.type, why |-> r.why, arg |-> r.arg, at |-> pos]
                     /\ UNCHANGED <<pos, applied>>
                ELSE /\ pos' = pos + 1
                     /\ applied' = IF r.outcome = "assign" THEN applied \cup {pos}
                                   ELSE applied
                     /\ UNCHANGED <<pc, err>>
    /\ UNCHANGED <<uid, x, calls, builds, last, input_layer, args, pt_loaded>>

\* main(), line 658: "Weight population successful"
Finish ==
    /\ pc = "transplant"
    /\ pos > NEntries
    /\ pc' = "done"
    /\ UNCHANGED <<build_vars, args, store, pt_loaded, pos, applied, err>>

Next ==
    \/ ParseArgs
    \/ LoadSource
    \/ BuildTarget
    \/ ApplyEntry
    \/ Finish

Spec == Init /\ [][Next]_vars

(***************************************************************************)
(* Properties of the builders (SpecBuild).                                 *)
(***************************************************************************)
\* The layers the last builder call added to the registry.
LastRegistered ==
    SubSeq(layers, Len(layers) - Len(Registered(last.ops)) + 1, Len(layers))

ResidualCase ==
    last.strides = 1 /\ last.input.shape[3] = last.output_channels

\* C1: inverted_residual_block emits the Add layer name + "add", combining the
\* stage-(c) batch-norm output with the block input, if and only if strides = 1
\* and the input's channel count equals output_channels; otherwise it returns
\* the bare stage-(c) batch-norm result and registers no Add layer.
C1_ResidualAddIff ==
    last.fn = "inverted_residual_block" =>
        LET reg == LastRegistered
            adds == {i \in 1..Len(reg) : reg[i].kind = "Add"}
            bn_3 == last.name \o "bn_3"
        IN  /\ reg = Registered(last.ops)
            /\ (adds # {}) <=> ResidualCase
            /\ ResidualCase =>
                 /\ adds = {Len(reg)}
                 /\ reg[Len(reg)].name = last.name \o "add"
                 /\ reg[Len(reg)].inbound = <<bn_3, last.input.from>>
                 /\ last.out.from = last.name \o "add"
            /\ ~ResidualCase =>
                 /\ last.out.from = bn_3
                 /\ reg[Len(reg)].name = bn_3
                 /\ reg[Len(reg)].kind = "BatchNormalization"

\* C1 witness: a block was called with stride 1 and equal widths and returned
\* its Add layer.
C1_Witness ==
    /\ last.fn = "inverted_residual_block"
    /\ ResidualCase
    /\ last.out.from = last.name \o "add"
    /\ layers[Len(layers)].kind = "Add"

\* C8: every build of the same call sequence in one process yields the same
\* set of layer names.
C8_NamesStableAcrossBuilds ==
    (builds # <<>> /\ calls = builds[1].calls) => Names(layers) = builds[1].names

\* C9: within one registry no two layers have the same name, whatever
\* conv_block and inverted_residual_block calls built it.
C9_NamesPairwiseUnique ==
    \A i, j \in 1..Len(layers) : layers[i].name = layers[j].name => i = j

(***************************************************************************)
(* Properties of the transplant (Spec).                                    *)
(***************************************************************************)
Built == pc \in {"transplant", "done"} \/ (pc = "error" /\ err.at > 0)
Ended == pc \in {"done", "error"}

\* Entry i has been executed: passed, or the one that raised.
Reached(i) == Built /\ (pos > i \/ (pos = i /\ pc = "error"))

SlotOf(i) == layers[get_layer(layers, Table[i].layer)].slots[Table[i].slot]

SourceOf(i) ==
    IF Table[i].by = "key" THEN model_states(store, Table[i].path)
    ELSE param_list(store)[Table[i].index + 1]

\* Entry i finds its layer (at position li), of the expected kind, with the
\* slot, and its source tensor.
Applicable(i, li) ==
    /\ li # 0
    /\ layers[li].kind = Table[i].expect
    /\ Table[i].slot \in DOMAIN layers[li].slots
    /\ IF Table[i].by = "key" THEN Table[i].path \in Paths(store)
       ELSE Table[i].index < Len(param_list(store))

\* The shape (O,I,H,W) of a convolution kernel in the target's layout.
KernelLayout(sh) == <<sh[3], sh[4], sh[2], sh[1]>>

\* The source of entry i, after its layout transform, has not the shape of
\* the slot.
ShapeMismatch(i) ==
    LET li == get_layer(layers, Table[i].layer)
    IN  /\ Applicable(i, li)
        /\ Table[i].transform = "kernel" => Len(SourceOf(i).shape) = 4
        /\ LET sh == SourceOf(i).shape
               after == IF Table[i].transform = "kernel" THEN KernelLayout(sh) ELSE sh
           IN  after # layers[li].slots[Table[i].slot].shape

\* C2: an entry whose transformed source tensor has not the declared shape of
\* its slot halts the run with an error at that entry: the slot keeps its
\* prior value, no later entry is applied, success is not reached.
C2_ShapeMismatchHalts ==
    \A i \in 1..NEntries :
        (Reached(i) /\ ShapeMismatch(i)) =>
            /\ pc = "error"
            /\ err.at = i
            /\ err.type = "ValueError" /\ err.why = "assign"
            /\ SlotOf(i) = Slot(SlotOf(i).shape)
            /\ \A j \in applied : j < i

\* C2 witness: the stem kernel source of shape 8x3x3x3 met the stem kernel
\* slot of shape (3,3,3,16).
C2_Witness ==
    /\ Reached(1) /\ ShapeMismatch(1)
    /\ SourceOf(1).shape = <<8, 3, 3, 3>>
    /\ SlotOf(1).shape = <<3, 3, 3, 16>>
    /\ pc = "error"

\* Every looked-up layer exists and is of the expected kind.
GoodRegistry ==
    \A i \in 1..NEntries :
        LET li == get_layer(layers, Table[i].layer)
        IN  li # 0 /\ layers[li].kind = Table[i].expect

\* C3: with the table unchanged, removing any single source path the table
\* refers to makes the run abort with an error naming exactly that path, and
\* no entry after the failing one is applied.
C3_MissingPathNamed ==
    (Ended /\ Built /\ GoodRegistry) =>
        \A p \in ReferencedPaths(get_mobilevit_pt(args.model_name)) :
            store = Omit(get_mobilevit_pt(args.model_name), p) =>
                /\ pc = "error"
                /\ err.type = "KeyError" /\ err.arg = p
                /\ \A j \in applied : j < err.at

\* C4: the success point is reached only if every entry of the table has
\* assigned its target slot.
C4_AllOrNothing ==
    pc = "done" => applied = 1..NEntries

\* C5: no (layer, slot) is assigned by two different entries: every slot has
\* been assigned at most once.
C5_NoSlotAssignedTwice ==
    /\ \A i \in 1..Len(layers) : \A s \in DOMAIN layers[i].slots :
           layers[i].slots[s].writes <= 1
    /\ \A i, j \in applied :
           (Table[i].layer = Table[j].layer /\ Table[i].slot = Table[j].slot) => i = j

\* C5 witness: the whole table has been applied.
C5_Witness ==
    pc = "done" /\ applied = 1..NEntries

\* C6: on success every parameter slot of every layer of the registry has
\* been assigned exactly once.
C6_EverySlotAssignedOnce ==
    pc = "done" =>
        \A i \in 1..Len(layers) : \A s \in DOMAIN layers[i].slots :
            layers[i].slots[s].writes = 1

\* C7: every layer name the transplant looks up names a layer registered by
\* conv_block or inverted_residual_block, of the kind the transplant expects.
C7_LookupsRegisteredByBuilders ==
    Built =>
        \A i \in 1..NEntries :
            \E k \in 1..Len(layers) :
                /\ layers[k].name = Table[i].layer
                /\ layers[k].origin \in {"conv_block", "inverted_residual_block"}
                /\ layers[k].kind = Table[i].expect

\* C10: a dataset without class-count mapping is reported before the source
\* model is instantiated and before the target registry is built.
C10_ConfigErrorBeforeLoading ==
    (pc = "error" /\ err.why = "DATASET_TO_CLASSES") =>
        (~pt_loaded /\ store = <<>> /\ layers = <<>>)

\* C11: an applied entry that targets a kernel slot leaves in it the source
\* tensor S of shape (O,I,H,W) as T of shape (H,W,I,O) with
\* T[h][w][i][o] = S[o][i][h][w]; an applied entry that targets a bias, gamma
\* or beta slot leaves in it the 1-D source tensor as it is.
C11_KernelTransformApplied ==
    \A i \in applied :
        LET v == SlotOf(i).val
            s == SourceOf(i)
        IN  IF Table[i].slot = "kernel"
              THEN /\ Len(s.shape) = 4
                   /\ v.src = s.src
                   /\ v.shape = <<s.shape[3], s.shape[4], s.shape[2], s.shape[1]>>
                   /\ v.axes = <<3, 4, 2, 1>>
              ELSE /\ Table[i].slot \in {"bias", "gamma", "beta"}
                   /\ Len(s.shape) = 1
                   /\ v = s

\* C11 witness: the 16x3x3x3 stem kernel is in the stem kernel slot with shape
\* (3,3,3,16), and 1-D slots have been assigned after it.
C11_Witness ==
    /\ {1, 2, 3} \subseteq applied
    /\ SourceOf(1).shape = <<16, 3, 3, 3>>
    /\ SlotOf(1).val.shape = <<3, 3, 3, 16>>
    /\ SlotOf(1).val.axes = <<3, 4, 2, 1>>
    /\ SlotOf(3).val = SourceOf(3)

\* C12: once the source model is loaded, no step of the run (building the
\* target, applying an entry with success, skip or abort, finishing) changes
\* the store: its paths and every tensor's shape and contents stay as loaded.
C12_StoreUnchanged ==
    [][pt_loaded => store' = store]_vars

\* C12 witness: a run aborted after a prefix of entries had been applied.
C12_Witness ==
    /\ pc = "error"
    /\ err.at > 1
    /\ applied # {}
    /\ store # <<>>

(***************************************************************************)
(* Properties of the block's layout (SpecBuild, SpecShape).                *)
(***************************************************************************)
\* The name under which an op's output reaches the next op.
OutName(l) == IF l.kind = "swish" THEN "swish(" \o l.inbound[1] \o ")" ELSE l.name

\* C13: every inverted_residual_block call emits, each op fed by the one
\* before it: 1x1 conv (expanded_channels filters, stride 1), batch-norm,
\* swish, zero padding iff strides = 2, 3x3 depthwise conv (groups = filters =
\* expanded_channels, the block's stride), batch-norm, swish, 1x1 conv
\* (output_channels filters, stride 1), batch-norm; after the last batch-norm
\* comes no activation (nothing, or the residual Add).
C13_LayerOrder ==
    last.fn = "inverted_residual_block" =>
        LET ops == last.ops
            n == IF last.strides = 2 THEN 1 ELSE 0
            body == <<"Conv2D", "BatchNormalization", "swish">>
                    \o (IF last.strides = 2 THEN <<"ZeroPadding2D">> ELSE <<>>)
                    \o <<"Conv2D", "BatchNormalization", "swish",
                         "Conv2D", "BatchNormalization">>
            c1 == ops[1].attrs
            c2 == ops[4 + n].attrs
            c3 == ops[7 + n].attrs
        IN  /\ Len(ops) \in {Len(body), Len(body) + 1}
            /\ \A i \in 1..Len(body) : ops[i].kind = body[i]
            /\ Len(ops) = Len(body) + 1 => ops[Len(ops)].kind = "Add"
            /\ ops[1].inbound = <<last.input.from>>
            /\ \A i \in 2..Len(body) : ops[i].inbound = <<OutName(ops[i - 1])>>
            /\ c1.filters = last.expanded_channels /\ c1.kernel_size = <<1, 1>>
            /\ c1.strides = 1 /\ c1.groups = 1 /\ c1.activation = ""
            /\ c2.filters = last.expanded_channels /\ c2.kernel_size = <<3, 3>>
            /\ c2.groups = last.expanded_channels /\ c2.strides = last.strides
            /\ c2.activation = ""
            /\ c3.filters = last.output_channels /\ c3.kernel_size = <<1, 1>>
            /\ c3.strides = 1 /\ c3.groups = 1 /\ c3.activation = ""
            /\ <<ops[1].name, ops[2].name, ops[4 + n].name, ops[5 + n].name,
                  ops[7 + n].name, ops[8 + n].name>>
                 = <<last.name \o "conv_1", last.name \o "bn_1", last.name \o "conv_2",
                     last.name \o "bn_2", last.name \o "conv_3", last.name \o "bn_3">>

\* C13 witness: a stride-2 call emitted its nine ops with the zero padding
\* in fourth place; a stride-1 call is the other case the formula covers.
C13_Witness ==
    /\ last.fn = "inverted_residual_block"
    /\ last.strides = 2
    /\ Len(last.ops) = 9
    /\ last.ops[4].kind = "ZeroPadding2D"
    /\ last.ops[5].attrs.strides = 2

\* C14: a call with strides = 2 returns a feature map whose height and width
\* are the input's halved and rounded up, whatever the input's height and
\* width (1 and above); a call with strides = 1 returns the input's height and
\* width, and when the residual Add is emitted the tensor it adds to the block
\* input has the block input's shape.
C14_SpatialDims ==
    last.fn = "inverted_residual_block" =>
        LET i == last.input.shape
            o == last.out.shape
        IN  /\ o[3] = last.output_channels
            /\ last.strides = 2 =>
                 \A a \in {1, 2} : 2 * o[a] \in {i[a], i[a] + 1}
            /\ last.strides = 1 =>
                 \A a \in {1, 2} : o[a] = i[a]
            /\ last.ops[Len(last.ops)].kind = "Add" => o = i

\* C14 witness: a stride-2 call on a feature map of height 3 and width 2
\* returned height 2 and width 1.
C14_Witness ==
    /\ last.fn = "inverted_residual_block"
    /\ last.strides = 2
    /\ last.input.shape[1] = 3 /\ last.input.shape[2] = 2
    /\ last.out.shape[1] = 2 /\ last.out.shape[2] = 1

(***************************************************************************)
(* Consistency of the correspondence table (Spec).                         *)
(***************************************************************************)
\* The tensor of the store that entry i reads.
Read(i) ==
    IF Table[i].by = "key"
      THEN store[CHOOSE j \in 1..Len(store) : store[j].path = Table[i].path]
      ELSE SelectSeq(store, LAMBDA s : s.param)[Table[i].index + 1]

\* The block (1..6) and stage (1..3) of the layer entry i targets, <<0, 0>>
\* for a layer outside the inverted residual blocks.
TargetStage(i) ==
    LET S == {ks \in (1..6) \X (1..3) :
                Table[i].layer \in {BlockName(ks[1]) \o "conv_" \o str(ks[2]),
                                    BlockName(ks[1]) \o "bn_" \o str(ks[2])}}
    IN  IF S = {} THEN <<0, 0>> ELSE CHOOSE ks \in S : TRUE

StageOf == <<"expand_1x1", "conv_3x3", "reduce_1x1">>

PartOf ==
    [kernel |-> <<"convolution", "weight">>, bias |-> <<"convolution", "bias">>,
     gamma |-> <<"normalization", "weight">>, beta |-> <<"normalization", "bias">>]

\* C15: on the store as loaded, (i) the slots of one target layer are read
\* from one source module, a kernel and bias from a convolution, a gamma and
\* beta from the weight and bias of a normalization; (ii) within target block
\* k, conv_1/bn_1 read expand_1x1, conv_2/bn_2 conv_3x3, conv_3/bn_3
\* reduce_1x1 of one source block; (iii) different target blocks read
\* different source blocks and no source tensor is read for two slots.
C15_TableConsistent ==
    (Built /\ store = get_mobilevit_pt(args.model_name)) =>
        \A i, j \in 1..NEntries :
            /\ <<Read(i).part, Read(i).attr>> = PartOf[Table[i].slot]
            /\ Table[i].layer = Table[j].layer =>
                 (Read(i).unit = Read(j).unit /\ Read(i).part = Read(j).part)
            /\ TargetStage(i)[1] # 0 =>
                 /\ Read(i).stage = StageOf[TargetStage(i)[2]]
                 /\ TargetStage(i)[1] = TargetStage(j)[1] <=> Read(i).block = Read(j).block
            /\ i # j => Read(i).path # Read(j).path

====
